---- MODULE Spec2Model ----
(***************************************************************************)
(* FTDB dump: the crawl of ftdbdump.py (download_construction_kits and the *)
(* helpers it calls) and the article-number normalisation of               *)
(* _parse_article_nos.                                                     *)
(*                                                                         *)
(* The remote API is the environment.  Every request is answered by a      *)
(* response drawn from a bounded set: a transport failure (sess.get        *)
(* raises), a response whose status is not "OK", or an "OK" response with  *)
(* an arbitrary pagination envelope and result list.  Two properties of    *)
(* the remote catalogue are assumed: a ticket id has one ft_cat_all value  *)
(* during a run (Cat), and the ticket-detail endpoint answers with the     *)
(* ticket that was asked for.  Listing pages and parts pages may repeat    *)
(* records, on the same page or on different pages.                        *)
(*                                                                         *)
(* Python values: a dict is a function whose DOMAIN is its key set, an     *)
(* optional value is a sequence of length at most one (None is <<>>).      *)
(***************************************************************************)
EXTENDS Integers, Sequences, FiniteSets

\* ------------------------------------------------------------------ bounds
\* listing: pages reported by the probe, records on a page
MaxPages == 2
MaxResults == 2
\* parts of a kit: pages reported by the probe, records on a page
MaxPartPages == 1
MaxParts == 1
\* article numbers: pairs in a payload
MaxPairs == 2

\* sample universes of the remote catalogue
Tickets == {1, 2}
PartIds == {7, 8}
CatValues == {<<"653">>, <<"653", "661">>}
RawCounts == {<<>>, <<"3">>, <<"5">>}
RawWeights == {<<"4">>}

\* ------------------------------------------------------------ Python values
None == <<>>
Some(x) == <<x>>
EmptyDict == <<>>

Put(d, k, v) == [x \in DOMAIN d \cup {k} |-> IF x = k THEN v ELSE d[x]]

Pop(rec, key) == [f \in DOMAIN rec \ {key} |-> rec[f]]

Range(s) == {s[n] : n \in DOMAIN s}

BoundedSeq(S, n) == UNION {[1..m -> S] : m \in 0..n}

RECURSIVE SelectIdx(_, _, _)
\* the subsequence of s at the positions (from n on) that satisfy keep
SelectIdx(s, keep, n) ==
    IF n > Len(s) THEN <<>>
    ELSE IF keep[n] THEN <<s[n]>> \o SelectIdx(s, keep, n + 1)
         ELSE SelectIdx(s, keep, n + 1)

\* ------------------------------------------------------------- ftdbdump.py
\* _fetch_json raises: sess.get fails, or the status is not the "OK" marker
\* faulty variants: a transport failure is swallowed; the status is not checked
_fetch_json_status_only(res) == res.status # "OK"
_fetch_json_transport_only(res) == res.transport
_fetch_json(res) == res.transport \/ res.status # "OK"

\* range(1, total_pages) still has the value i
in_range(i, total_pages) == i >= 1 /\ i < total_pages

\* faulty variants: no category filter; ids repeated on a page yielded once
parse_construction_kit_ids_nofilter(dct) ==
    [n \in DOMAIN dct.results |-> dct.results[n].ticket_id]
parse_construction_kit_ids_dedup(dct) ==
    LET r == dct.results
        keep == [n \in DOMAIN r |->
                    /\ "661" \notin Range(r[n].ft_cat_all)
                    /\ \A m \in 1..(n - 1) : r[m].ticket_id # r[n].ticket_id]
        kept == SelectIdx(r, keep, 1)
    IN [n \in DOMAIN kept |-> kept[n].ticket_id]
parse_construction_kit_ids(dct) ==
    LET r == dct.results
        keep == [n \in DOMAIN r |-> "661" \notin Range(r[n].ft_cat_all)]
        kept == SelectIdx(r, keep, 1)
    IN [n \in DOMAIN kept |-> kept[n].ticket_id]

\* int() on the decimal strings of the universe
int(s) == CASE s = "0" -> 0 [] s = "3" -> 3 [] s = "4" -> 4 [] s = "5" -> 5

\* Python truthiness of an optional string
truthy(o) == o # None /\ o[1] # ""

\* one element of parse_parts: _parse_common plus weight and count
parse_part(d) ==
    [id |-> d.ticket_id,
     weight |-> d.ft_weight,
     count |-> IF truthy(d.ft_count) THEN Some(int(d.ft_count[1])) ELSE None]

parse_parts(dct) == [n \in DOMAIN dct.results |-> parse_part(dct.results[n])]

\* get_construction_kit: _parse_common of the detail record, parts = {}
\* faulty variant: parts filled from ft_contains (the code commented out at 140-141)
get_construction_kit_contains(dct) ==
    [id |-> dct.results.ticket_id,
     parts |-> [p \in Range(dct.results.ft_contains) |-> None]]
get_construction_kit(dct) ==
    [id |-> dct.results.ticket_id, parts |-> EmptyDict]

\* dct['cTotal'] == 0
\* faulty variant: the zero total is not noticed
no_parts_never(dct) == FALSE
no_parts(dct) == dct.cTotal = 0

\* line 50: ck['parts'][part_id] = part.pop('count', None)
\* faulty variant: one parts dict shared by all kits
set_count_shared(kits, ticket_id, part) ==
    [k \in DOMAIN kits |-> [kits[k] EXCEPT !.parts = Put(@, part.id, part.count)]]
set_count(kits, ticket_id, part) ==
    [kits EXCEPT ![ticket_id].parts = Put(@, part.id, part.count)]

\* line 51: parts[part_id] = part, after the pop of line 50
\* faulty variants: count left in the record; parts without a count not stored
register_part_keep_count(registry, part) == Put(registry, part.id, part)
register_part_counted_only(registry, part) ==
    IF part.count = None THEN registry
    ELSE Put(registry, part.id, Pop(part, "count"))
register_part(registry, part) == Put(registry, part.id, Pop(part, "count"))

\* ------------------------------------------------- _parse_article_nos
\* JSON text is a sequence of tokens; a string literal carries its value
Tok(t, v) == [t |-> t, v |-> v]
LB == Tok("[", "")
RB == Tok("]", "")
COMMA == Tok(",", "")
NULL == Tok("null", "")
Str(v) == Tok("str", v)

\* the literal '[]' of line 77
EmptyArrayText == <<LB, RB>>

\* json.loads of a scalar: null or a string
json_scalar(tok) == IF tok = NULL THEN None ELSE Some(tok.v)

RECURSIVE json_pairs(_, _)
\* json.loads of the elements of the outer array, from position n on
json_pairs(text, n) ==
    IF text[n] = RB THEN <<>>
    ELSE LET pair == <<json_scalar(text[n + 1]), json_scalar(text[n + 3])>>
         IN IF text[n + 5] = COMMA
            THEN <<pair>> \o json_pairs(text, n + 6)
            ELSE <<pair>>

\* json.loads of an array of [number, year] arrays
json_loads(text) == json_pairs(text, 2)

\* k or ''
or_empty(k) == IF k = None \/ k[1] = "" THEN "" ELSE k[1]

RECURSIVE dict(_, _)
\* dict(pairs): later pairs replace earlier ones with the same key
dict(d, pairs) ==
    IF pairs = <<>> THEN d
    ELSE dict(Put(d, Head(pairs)[1], Head(pairs)[2]), Tail(pairs))

\* faulty variant: pairs with a null number are dropped
_parse_article_nos_drop_null(dct) ==
    LET article_numbers == dct.ft_article_nos IN
    IF article_numbers = None \/ article_numbers[1] = EmptyArrayText THEN EmptyDict
    ELSE LET loaded == json_loads(article_numbers[1])
             present == SelectIdx(loaded, [n \in DOMAIN loaded |-> loaded[n][1] # None], 1)
         IN dict(EmptyDict, [n \in DOMAIN present |->
                                <<or_empty(present[n][1]), present[n][2]>>])
_parse_article_nos(dct) ==
    LET article_numbers == dct.ft_article_nos IN
    IF article_numbers = None \/ article_numbers[1] = EmptyArrayText THEN EmptyDict
    ELSE LET loaded == json_loads(article_numbers[1])
         IN dict(EmptyDict, [n \in DOMAIN loaded |->
                                <<or_empty(loaded[n][1]), loaded[n][2]>>])

\* the remote's encoding of a sequence of (number, year) pairs
JsonScalar(o) == IF o = None THEN NULL ELSE Str(o[1])
RECURSIVE JsonElements(_)
JsonElements(pairs) ==
    IF pairs = <<>> THEN <<>>
    ELSE <<LB, JsonScalar(pairs[1][1]), COMMA, JsonScalar(pairs[1][2]), RB>>
         \o (IF Len(pairs) > 1 THEN <<COMMA>> ELSE <<>>)
         \o JsonElements(Tail(pairs))
JsonText(pairs) == <<LB>> \o JsonElements(pairs) \o <<RB>>

ArticleNumbers == {None, Some(""), Some("30012"), Some("30013")}
Years == {Some("1999"), Some("2001")}
ArticlePairs == {<<k, y>> : k \in ArticleNumbers, y \in Years}

\* ---------------------------------------------------------- remote responses
Response(transport, status, cPages, cTotal, results) ==
    [transport |-> transport, status |-> status, cPages |-> cPages,
     cTotal |-> cTotal, results |-> results]

\* a request that did not produce a usable answer
Failed(res) == res.transport \/ res.status # "OK"

FailedResponses(results) ==
    {Response(TRUE, "OK", 0, 0, results), Response(FALSE, "ERROR", 0, 0, results)}

VARIABLES
    Cat,                \* remote catalogue: ticket id -> ft_cat_all
    pc,                 \* position in download_construction_kits / __main__
    total_pages, i,     \* the page loop that is running
    ids,                \* ticket ids the generator of line 36 has yet to yield
    construction_kits,  \* dict ticket id -> kit
    kit_order,          \* key order of construction_kits (insertion order)
    parts,              \* the shared parts registry
    kpos,               \* position of the loop of line 40 in kit_order
    part_queue,         \* parts the generator of line 48 has yet to yield
    output,             \* the document written by __main__, None before
    requests,           \* number of requests sent so far
    failure,            \* the first request that failed, None before
    listing,            \* what the listing endpoint answered so far
    detail_fetches,     \* ticket id -> requests to the ticket-detail endpoint
    parts_requests,     \* ticket id -> requests to the parts endpoint
    reported_total,     \* ticket id -> cTotal of its parts probe
    last_listed,        \* ticket id -> part id -> raw count last listed
    pairs,              \* the (number, year) pairs the remote encoded
    record,             \* a raw record handed to _parse_article_nos
    article_numbers     \* what _parse_article_nos returned, None before

prog == <<total_pages, i, ids, construction_kits, kit_order, parts, kpos, part_queue>>
hist == <<listing, detail_fetches, parts_requests, reported_total, last_listed>>
art == <<pairs, record, article_numbers>>
vars == <<Cat, pc, prog, output, requests, failure, hist, art>>

ListingRecord(t) == [ticket_id |-> t, ft_cat_all |-> Cat[t]]
DetailRecord(t) == [ticket_id |-> t, ft_cat_all |-> Cat[t], ft_contains |-> <<7>>]
PartRecords ==
    [ticket_id : PartIds, ft_count : RawCounts, ft_weight : RawWeights]

ListingProbeResponses ==
    {Response(FALSE, "OK", n, n * MaxResults, <<>>) : n \in 0..MaxPages}
        \cup FailedResponses(<<>>)
ListingPageResponses ==
    {Response(FALSE, "OK", MaxPages, MaxPages * MaxResults,
              [n \in DOMAIN s |-> ListingRecord(s[n])]) :
        s \in BoundedSeq(Tickets, MaxResults)}
        \cup FailedResponses(<<>>)
DetailResponses(t) ==
    {Response(FALSE, "OK", 0, 1, DetailRecord(t))} \cup FailedResponses(DetailRecord(t))
PartsProbeResponses ==
    {Response(FALSE, "OK", n, c, <<>>) : n \in 0..MaxPartPages, c \in {0, MaxParts}}
        \cup FailedResponses(<<>>)
PartsPageResponses ==
    {Response(FALSE, "OK", MaxPartPages, MaxParts, s) :
        s \in BoundedSeq(PartRecords, MaxParts)}
        \cup FailedResponses(<<>>)

\* the environment's note of a request and of its answer
Request(res, endpoint, ticket, page) ==
    /\ requests' = requests + 1
    /\ failure' = IF failure = None /\ Failed(res)
                  THEN Some([at |-> requests + 1, endpoint |-> endpoint,
                             ticket |-> ticket, page |-> page,
                             transport |-> res.transport])
                  ELSE failure

\* the exception of line 63 or 66 leaves download_construction_kits and __main__
Raise ==
    /\ pc' = "raised"
    /\ UNCHANGED <<prog, output>>

Count(s, x) == Cardinality({n \in DOMAIN s : s[n] = x})

\* the raw count of the last record of part p on a page
LastCount(results, p) ==
    LET at == {n \in DOMAIN results : results[n].ticket_id = p}
    IN results[CHOOSE n \in at : \A m \in at : m <= n].ft_count

Init ==
    /\ Cat \in [Tickets -> CatValues]
    /\ pc = "start"
    /\ total_pages = 0
    /\ i = 0
    /\ ids = <<>>
    /\ construction_kits = EmptyDict
    /\ kit_order = <<>>
    /\ parts = EmptyDict
    /\ kpos = 0
    /\ part_queue = <<>>
    /\ output = None
    /\ requests = 0
    /\ failure = None
    /\ listing = [cPages |-> None, walked |-> 0, seen |-> [t \in Tickets |-> 0]]
    /\ detail_fetches = [t \in Tickets |-> 0]
    /\ parts_requests = [t \in Tickets |-> [probe |-> 0, pages |-> 0]]
    /\ reported_total = EmptyDict
    /\ last_listed = [t \in Tickets |-> EmptyDict]
    /\ pairs = <<>>
    /\ record = [ft_article_nos |-> None]
    /\ article_numbers = None

\* lines 27-33: the listing probe
FetchListingProbe ==
    /\ pc = "start"
    /\ UNCHANGED art
    /\ \E res \in ListingProbeResponses :
        /\ Request(res, "listing_probe", None, None)
        /\ listing' = IF Failed(res) THEN listing
                      ELSE [listing EXCEPT !.cPages = Some(res.cPages)]
        /\ IF _fetch_json(res) THEN Raise
           ELSE /\ total_pages' = res.cPages + 1
                /\ i' = 1
                /\ pc' = "listing"
                /\ UNCHANGED <<ids, construction_kits, kit_order, parts, kpos,
                               part_queue, output>>
    /\ UNCHANGED <<Cat, detail_fetches, parts_requests, reported_total, last_listed>>

\* lines 34-36: one listing page
FetchListingPage ==
    /\ pc = "listing"
    /\ UNCHANGED art
    /\ in_range(i, total_pages)
    /\ \E res \in ListingPageResponses :
        /\ Request(res, "listing_page", None, Some(i))
        /\ listing' = IF Failed(res) THEN listing
                      ELSE [listing EXCEPT
                              !.walked = @ + 1,
                              !.seen = [t \in Tickets |->
                                  @[t] + Count([n \in DOMAIN res.results |->
                                                  res.results[n].ticket_id], t)]]
        /\ IF _fetch_json(res) THEN Raise
           ELSE /\ ids' = parse_construction_kit_ids(res)
                /\ pc' = "kit_ids"
                /\ UNCHANGED <<total_pages, i, construction_kits, kit_order, parts,
                               kpos, part_queue, output>>
    /\ UNCHANGED <<Cat, detail_fetches, parts_requests, reported_total, last_listed>>

\* lines 37-38: the next ticket id of the page
GetConstructionKit ==
    /\ pc = "kit_ids"
    /\ UNCHANGED art
    /\ ids # <<>>
    /\ LET ticket_id == Head(ids) IN
       \E res \in DetailResponses(ticket_id) :
        /\ Request(res, "ticket", Some(ticket_id), None)
        /\ detail_fetches' = [detail_fetches EXCEPT ![ticket_id] = @ + 1]
        /\ IF _fetch_json(res) THEN Raise
           ELSE LET ck == get_construction_kit(res) IN
                /\ construction_kits' = Put(construction_kits, ck.id, ck)
                /\ kit_order' = IF ck.id \in DOMAIN construction_kits
                                THEN kit_order ELSE Append(kit_order, ck.id)
                /\ ids' = Tail(ids)
                /\ UNCHANGED <<pc, total_pages, i, parts, kpos, part_queue, output>>
    /\ UNCHANGED <<Cat, listing, parts_requests, reported_total, last_listed>>

\* line 34: the page is exhausted, next value of range(1, total_pages)
NextListingPage ==
    /\ pc = "kit_ids"
    /\ UNCHANGED art
    /\ ids = <<>>
    /\ i' = i + 1
    /\ pc' = "listing"
    /\ UNCHANGED <<Cat, total_pages, ids, construction_kits, kit_order, parts, kpos,
                   part_queue, output, requests, failure, hist>>

\* lines 39-40: the listing loop is over, the loop over the kits begins
StartParts ==
    /\ pc = "listing"
    /\ UNCHANGED art
    /\ ~in_range(i, total_pages)
    /\ kpos' = 1
    /\ pc' = "kits"
    /\ UNCHANGED <<Cat, total_pages, i, ids, construction_kits, kit_order, parts,
                   part_queue, output, requests, failure, hist>>

\* lines 41-45: the parts probe of the next kit
FetchPartsProbe ==
    /\ pc = "kits"
    /\ UNCHANGED art
    /\ kpos <= Len(kit_order)
    /\ LET ticket_id == kit_order[kpos] IN
       \E res \in PartsProbeResponses :
        /\ Request(res, "parts_probe", Some(ticket_id), None)
        /\ parts_requests' = [parts_requests EXCEPT ![ticket_id].probe = @ + 1]
        /\ reported_total' = IF Failed(res) THEN reported_total
                             ELSE Put(reported_total, ticket_id, res.cTotal)
        /\ IF _fetch_json(res) THEN Raise
           ELSE IF no_parts(res)
                THEN /\ kpos' = kpos + 1
                     /\ UNCHANGED <<pc, total_pages, i, ids, construction_kits,
                                    kit_order, parts, part_queue, output>>
                ELSE /\ total_pages' = res.cPages + 1
                     /\ i' = 1
                     /\ pc' = "parts_pages"
                     /\ UNCHANGED <<ids, construction_kits, kit_order, parts, kpos,
                                    part_queue, output>>
    /\ UNCHANGED <<Cat, listing, detail_fetches, last_listed>>

\* lines 46-48: one parts page of the current kit
FetchPartsPage ==
    /\ pc = "parts_pages"
    /\ UNCHANGED art
    /\ in_range(i, total_pages)
    /\ LET ticket_id == kit_order[kpos] IN
       \E res \in PartsPageResponses :
        /\ Request(res, "parts_page", Some(ticket_id), Some(i))
        /\ parts_requests' = [parts_requests EXCEPT ![ticket_id].pages = @ + 1]
        /\ last_listed' =
             IF Failed(res) THEN last_listed
             ELSE [last_listed EXCEPT ![ticket_id] =
                     [p \in DOMAIN @ \cup {r.ticket_id : r \in Range(res.results)} |->
                        IF p \in {r.ticket_id : r \in Range(res.results)}
                        THEN LastCount(res.results, p) ELSE @[p]]]
        /\ IF _fetch_json(res) THEN Raise
           ELSE /\ part_queue' = parse_parts(res)
                /\ pc' = "part_records"
                /\ UNCHANGED <<total_pages, i, ids, construction_kits, kit_order,
                               parts, kpos, output>>
    /\ UNCHANGED <<Cat, listing, detail_fetches, reported_total>>

\* lines 49-51: the next part of the page
MergePart ==
    /\ pc = "part_records"
    /\ UNCHANGED art
    /\ part_queue # <<>>
    /\ LET ticket_id == kit_order[kpos]
           part == Head(part_queue)
       IN /\ construction_kits' = set_count(construction_kits, ticket_id, part)
          /\ parts' = register_part(parts, part)
    /\ part_queue' = Tail(part_queue)
    /\ UNCHANGED <<Cat, pc, total_pages, i, ids, kit_order, kpos, output, requests,
                   failure, hist>>

\* line 46: the page is exhausted, next value of range(1, total_pages)
NextPartsPage ==
    /\ pc = "part_records"
    /\ UNCHANGED art
    /\ part_queue = <<>>
    /\ i' = i + 1
    /\ pc' = "parts_pages"
    /\ UNCHANGED <<Cat, total_pages, ids, construction_kits, kit_order, parts, kpos,
                   part_queue, output, requests, failure, hist>>

\* line 40: the pages of the kit are exhausted, next kit
NextKit ==
    /\ pc = "parts_pages"
    /\ UNCHANGED art
    /\ ~in_range(i, total_pages)
    /\ kpos' = kpos + 1
    /\ pc' = "kits"
    /\ UNCHANGED <<Cat, total_pages, i, ids, construction_kits, kit_order, parts,
                   part_queue, output, requests, failure, hist>>

\* line 52: the loop over the kits is over
Return ==
    /\ pc = "kits"
    /\ UNCHANGED art
    /\ kpos > Len(kit_order)
    /\ pc' = "returned"
    /\ UNCHANGED <<Cat, prog, output, requests, failure, hist>>

\* lines 151-153: __main__ writes the result
WriteOutput ==
    /\ pc = "returned"
    /\ UNCHANGED art
    /\ output' = Some([kits |-> construction_kits, parts |-> parts])
    /\ pc' = "written"
    /\ UNCHANGED <<Cat, prog, requests, failure, hist>>

Next ==
    \/ FetchListingProbe
    \/ FetchListingPage
    \/ GetConstructionKit
    \/ NextListingPage
    \/ StartParts
    \/ FetchPartsProbe
    \/ FetchPartsPage
    \/ MergePart
    \/ NextPartsPage
    \/ NextKit
    \/ Return
    \/ WriteOutput

Spec == Init /\ [][Next]_vars

\* --------------------------------------- _parse_article_nos on its own
InitArticle ==
    /\ Cat \in [Tickets -> {<<"653">>}]
    /\ pc = "start"
    /\ total_pages = 0
    /\ i = 0
    /\ ids = <<>>
    /\ construction_kits = EmptyDict
    /\ kit_order = <<>>
    /\ parts = EmptyDict
    /\ kpos = 0
    /\ part_queue = <<>>
    /\ output = None
    /\ requests = 0
    /\ failure = None
    /\ listing = [cPages |-> None, walked |-> 0, seen |-> [t \in Tickets |-> 0]]
    /\ detail_fetches = [t \in Tickets |-> 0]
    /\ parts_requests = [t \in Tickets |-> [probe |-> 0, pages |-> 0]]
    /\ reported_total = EmptyDict
    /\ last_listed = [t \in Tickets |-> EmptyDict]
    /\ pairs \in BoundedSeq(ArticlePairs, MaxPairs)
    /\ record \in {[ft_article_nos |-> None], [ft_article_nos |-> Some(JsonText(pairs))]}
    /\ article_numbers = None

\* lines 76-80
ParseArticleNos ==
    /\ article_numbers = None
    /\ article_numbers' = Some(_parse_article_nos(record))
    /\ UNCHANGED <<Cat, pc, prog, output, requests, failure, hist, pairs, record>>

NextArticle == ParseArticleNos

SpecArticle == InitArticle /\ [][NextArticle]_vars

\* ------------------------------------------------------------ properties
Returned == pc \in {"returned", "written"}
Snapshot == [kits |-> construction_kits, parts |-> parts]
Excluded(t) == "661" \in Range(Cat[t])

\* C1: in the snapshot a run returns, every part id that is a key of a kit's
\* parts mapping is a key of the shared parts registry.
C1_KitPartsAreRegistered ==
    Returned =>
        \A k \in DOMAIN Snapshot.kits :
            DOMAIN Snapshot.kits[k].parts \subseteq DOMAIN Snapshot.parts

C1_Witness ==
    /\ Returned
    /\ \E k \in DOMAIN construction_kits : DOMAIN construction_kits[k].parts # {}

\* C2: in every state of the crawl, no record of the shared parts registry
\* has a count field.
C2_NoCountInRegistry ==
    \A p \in DOMAIN parts : "count" \notin DOMAIN parts[p]

\* a part that was registered for one kit is found again in a later kit
C2_Witness ==
    \E p \in DOMAIN parts : \E k1, k2 \in DOMAIN construction_kits :
        /\ k1 # k2
        /\ p \in DOMAIN construction_kits[k1].parts
        /\ p \in DOMAIN construction_kits[k2].parts
        /\ DOMAIN parts[p] = {"id", "weight"}

\* the count parse_parts makes of a raw ft_count
ListedCount(raw) == IF raw = None \/ raw[1] = "" THEN None ELSE Some(int(raw[1]))

\* C3: in the snapshot a run returns, each kit's parts mapping holds, for
\* every part its parts listing named, the count that listing gave, whatever
\* counts the listings of the other kits gave for the same part.
C3_CountsArePerKit ==
    Returned =>
        \A k \in DOMAIN construction_kits :
            /\ DOMAIN construction_kits[k].parts = DOMAIN last_listed[k]
            /\ \A p \in DOMAIN last_listed[k] :
                  construction_kits[k].parts[p] = ListedCount(last_listed[k][p])

C3_Witness ==
    /\ Returned
    /\ \E p \in PartIds : \E k1, k2 \in DOMAIN construction_kits :
        /\ k1 # k2
        /\ p \in DOMAIN construction_kits[k1].parts
        /\ p \in DOMAIN construction_kits[k2].parts
        /\ construction_kits[k1].parts[p] = Some(3)
        /\ construction_kits[k2].parts[p] = Some(5)
        /\ p \in DOMAIN parts

StatusFailure == failure # None /\ ~failure[1].transport
TransportFailure == failure # None /\ failure[1].transport

\* C4: once a response has a status other than "OK", the run has raised at
\* that request, no request follows it and no output document is written.
C4_BadStatusAbortsRun ==
    StatusFailure =>
        /\ pc = "raised"
        /\ requests = failure[1].at
        /\ output = None

\* page 2 of the listing answers with a status other than "OK"
C4_Witness ==
    /\ StatusFailure
    /\ failure[1].endpoint = "listing_page"
    /\ failure[1].page = Some(2)
    /\ DOMAIN construction_kits # {}

PartsPageTransportFailure ==
    TransportFailure /\ failure[1].endpoint = "parts_page"

\* C5 as stated: a network-level failure of a parts-page request does not
\* end the run before the parts of every other kit are requested.
C5_Original ==
    (PartsPageTransportFailure /\ pc = "raised") =>
        \A k \in DOMAIN construction_kits : parts_requests[k].probe > 0

\* C5 amended: a network-level failure of a parts-page request ends the run
\* at that request: no request follows, the kits after the failing one are
\* never visited and no output document is written.
C5_TransportFailureAbortsRun ==
    PartsPageTransportFailure =>
        /\ pc = "raised"
        /\ requests = failure[1].at
        /\ output = None
        /\ \A n \in DOMAIN kit_order :
              n > kpos =>
                /\ parts_requests[kit_order[n]] = [probe |-> 0, pages |-> 0]
                /\ construction_kits[kit_order[n]].parts = EmptyDict

C5_Witness ==
    /\ PartsPageTransportFailure
    /\ pc = "raised"
    /\ kpos < Len(kit_order)
    /\ parts_requests[kit_order[kpos + 1]].probe = 0

\* C6 as stated: the ticket-detail endpoint is requested at most once per
\* ticket id.
C6_Original ==
    \A t \in Tickets : detail_fetches[t] <= 1

\* ticket ids of the current page whose detail request is still to come
Pending(t) ==
    Count(ids, t) -
        (IF pc = "raised" /\ failure # None /\ failure[1].endpoint = "ticket"
            /\ failure[1].ticket = Some(t)
         THEN 1 ELSE 0)

\* C6 amended: the ticket-detail endpoint is requested once per occurrence
\* of a ticket id without category 661 in the listing results, and never for
\* a ticket id with category 661.
C6_OneFetchPerListedRecord ==
    \A t \in Tickets :
        detail_fetches[t] + Pending(t) = IF Excluded(t) THEN 0 ELSE listing.seen[t]

C6_Witness ==
    /\ Returned
    /\ \E t \in Tickets : detail_fetches[t] = 2 /\ listing.seen[t] = 2
                          /\ t \in DOMAIN construction_kits

\* C7: a kit whose parts probe reported a total of zero has had that one
\* request to the parts endpoint and no page request, its parts mapping is
\* empty, the run did not fail on it and the crawl has moved on past it.
C7_ZeroTotalIsSkipped ==
    \A n \in DOMAIN kit_order :
        LET k == kit_order[n] IN
        (k \in DOMAIN reported_total /\ reported_total[k] = 0) =>
            /\ parts_requests[k] = [probe |-> 1, pages |-> 0]
            /\ construction_kits[k].parts = EmptyDict
            /\ ~(failure # None /\ failure[1].ticket = Some(k)
                 /\ failure[1].endpoint \in {"parts_probe", "parts_page"})
            /\ n < kpos

\* a kit with total zero, and the kit after it got its parts
C7_Witness ==
    /\ Returned
    /\ Len(kit_order) = 2
    /\ kit_order[1] \in DOMAIN reported_total
    /\ reported_total[kit_order[1]] = 0
    /\ construction_kits[kit_order[2]].parts # EmptyDict

PartsTouched ==
    \/ \E t \in Tickets : parts_requests[t] # [probe |-> 0, pages |-> 0]
    \/ parts # EmptyDict
    \/ \E k \in DOMAIN construction_kits : construction_kits[k].parts # EmptyDict

ListingWalked ==
    /\ listing.cPages # None
    /\ listing.walked = listing.cPages[1]
    /\ ids = <<>>
    /\ \A t \in Tickets :
          (listing.seen[t] > 0 /\ ~Excluded(t)) =>
              /\ t \in DOMAIN construction_kits
              /\ detail_fetches[t] = listing.seen[t]

\* C8: before every page of the listing is walked and every listed kit is
\* resolved, no request goes to the parts endpoint, every kit's parts
\* mapping is empty and the shared parts registry is empty.
C8_PartsAfterListing ==
    PartsTouched => ListingWalked

\* two listing pages walked, two kits resolved, then the first parts request
C8_Witness ==
    /\ listing.walked = 2
    /\ Cardinality(DOMAIN construction_kits) = 2
    /\ requests = 1 + 2 + detail_fetches[1] + detail_fetches[2] + 1
    /\ parts_requests[kit_order[1]].probe = 1

\* C9: a ticket id listed with category 661 gets no ticket-detail request
\* and no kit; a ticket id listed without it has a kit in the snapshot a run
\* returns.
C9_Category661Excluded ==
    \A t \in Tickets :
        /\ Excluded(t) => (t \notin DOMAIN construction_kits /\ detail_fetches[t] = 0)
        /\ (Returned /\ listing.seen[t] > 0 /\ ~Excluded(t)) =>
              t \in DOMAIN Snapshot.kits

C9_Witness ==
    /\ Returned
    /\ \E t, u \in Tickets :
        /\ Excluded(t) /\ listing.seen[t] > 0 /\ t \notin DOMAIN construction_kits
        /\ ~Excluded(u) /\ listing.seen[u] > 0 /\ u \in DOMAIN construction_kits

Encoded == record.ft_article_nos # None
Normalized == article_numbers # None

\* C10 as stated: every (number, year) pair of the payload is in the
\* mapping, a null number under the key "".
C10_Original ==
    (Encoded /\ Normalized) =>
        \A n \in DOMAIN pairs :
            /\ or_empty(pairs[n][1]) \in DOMAIN article_numbers[1]
            /\ article_numbers[1][or_empty(pairs[n][1])] = pairs[n][2]

\* the last pair of the payload whose number, null taken as "", is key
LastYear(key) ==
    LET at == {n \in DOMAIN pairs : or_empty(pairs[n][1]) = key}
    IN pairs[CHOOSE n \in at : \A m \in at : m <= n][2]

\* C10 amended: the keys of the mapping are the numbers of the payload, a
\* null number taken as ""; a key has the year of the last pair with that
\* number, so of several pairs with a null or empty number only the last is
\* in the mapping.
C10_LastPairPerKey ==
    (Encoded /\ Normalized) =>
        /\ DOMAIN article_numbers[1] = {or_empty(pairs[n][1]) : n \in DOMAIN pairs}
        /\ \A key \in DOMAIN article_numbers[1] :
              article_numbers[1][key] = LastYear(key)

\* a null number and an empty number with different years
C10_Witness ==
    /\ Encoded /\ Normalized
    /\ pairs = <<(<<None, Some("1999")>>), (<<Some(""), Some("2001")>>)>>
    /\ article_numbers[1] = [k \in {""} |-> Some("2001")]

====
